---- MODULE Spec2Model ----
(***************************************************************************)
(* Model of the optimint RPC client (package client): the three broadcast  *)
(* modes (BroadcastTxCommit, BroadcastTxSync, BroadcastTxAsync), the        *)
(* subscription surface (Subscribe, Unsubscribe, eventsRoutine,            *)
(* resubscribe) and the collaborators they drive: the event bus, the       *)
(* mempool and the gossip transport.                                       *)
(*                                                                         *)
(* Each RPC call is a task with a program counter; every step between two  *)
(* points where another task can run is one action.  The collaborators are *)
(* modelled by what the client observes of them: the bus by its registry   *)
(* of (subscriber, query) pairs and its subscription objects (out channel, *)
(* cancellation flag and cause), the mempool by the set of keys it holds   *)
(* and the validation answer it owes each caller, gossip by its outcome.   *)
(***************************************************************************)
EXTENDS Integers, Sequences, FiniteSets, TLC

\* ------------------------------------------------------------------ bounds
NumCallers == 2             \* concurrent broadcast calls
NumUsers == 1               \* concurrent Client.Subscribe sessions
NumTxs == 1                 \* distinct transactions
NumSubscribers == 1         \* subscriber identities beside the local one
MaxHeight == 3              \* blocks (inclusion events) the bus publishes
MaxAttempts == 2            \* failed resubscription attempts that are counted

\* Configuration of the RPC server (config.RPCConfig), small here.
MaxHits == 3                \* hits the indexer returns to one TxSearch
MaxPage == 3                \* largest explicit page argument
MaxTotal == 45              \* largest result-set size that is paginated
MaxSubscriptionClients == 2
MaxSubscriptionsPerClient == 1

Callers == 1..NumCallers
Users == 1..NumUsers
Txs == 1..NumTxs
Heights == 1..MaxHeight

\* The subscriber of BroadcastTxCommit is the empty string: subscriber 0.
LocalSubscriber == 0
Subscribers == 0..NumSubscribers

\* A query is the transaction whose inclusion event it matches
\* (types.EventQueryTxFor(tx)), or a query that matches no inclusion event
\* (OtherQuery, say tm.event='NewBlock'); BadQuery is a string tmquery.New
\* rejects.
OtherQuery == "other"
BadQuery == "bad"
EventQueryTxFor(tx) == <<"tx", tx>>
Queries == {EventQueryTxFor(tx) : tx \in Txs} \cup {<<OtherQuery>>}
Keys == Subscribers \X Queries

\* Subscription objects: caller c holds object c, user u object NumCallers+u.
NoOwner == 0
CallerSub(c) == c
UserSub(u) == NumCallers + u
SubIds == 1..(NumCallers + NumUsers)

\* Out capacities a user may ask for (0 = unbuffered).
Capacities == {0, 2}

CodeTypeOK == "OK"
CodeNotOK == "NotOK"
\* The execution result (abci.ResponseDeliverTx) of tx in the block at
\* height h, and the zero value abci.ResponseDeliverTx{}.
DeliverTx(tx, h) == <<"deliverTx", tx, h>>
EmptyDeliverTx == <<"deliverTx", 0, 0>>

\* tx.Hash() and mempool.TxKey(tx): content-derived, one value per tx.
Hash(tx) == <<"hash", tx>>
TxKey(tx) == <<"key", tx>>

VARIABLES
    running,     \* the event bus (and the client embedding it) is running
    bus,         \* the bus registry: key -> the subscription object it feeds
    sub,         \* subscription objects: out channel, cancellation, cause
    height,      \* blocks published so far
    pool,        \* keys of the transactions the mempool holds
    call,        \* the broadcast calls, one record per caller
    fwd          \* the Client.Subscribe sessions and their forwarders

vars == <<running, bus, sub, height, pool, call, fwd>>

\* ------------------------------------------------------------ bus helpers
NoSub == [cancelled |-> FALSE, err |-> "nil", out |-> <<>>, cap |-> 1,
          emitted |-> <<>>]

\* EventBus.NumClients: subscribers with at least one subscription.
NumClients == Cardinality({s \in Subscribers : \E q \in Queries : bus[<<s, q>>] # NoOwner})

\* EventBus.NumClientSubscriptions(subscriber).
NumClientSubscriptions(s) == Cardinality({q \in Queries : bus[<<s, q>>] # NoOwner})

\* The subscription objects with one of them cancelled for cause err.
Cancel(subs, id, err) == [subs EXCEPT ![id] = [@ EXCEPT !.cancelled = TRUE, !.err = err]]

\* The registry with a key removed (pubsub's remove).
Unregister(b, key) == [b EXCEPT ![key] = NoOwner]

\* EventBus.Subscribe can register key now: the bus runs and the pair
\* (subscriber, query) is not subscribed yet (else ErrAlreadySubscribed).
CanSubscribe(key) == running /\ bus[key] = NoOwner

\* The cause Subscription.Err() reports, as the client distinguishes it.
ErrUnsubscribed == "unsubscribed"
ErrOutOfCapacity == "outOfCapacity"

\* fmt.Errorf("deliverTxSub was cancelled (reason: %s)", reason).
CancelledError(reason) ==
    CASE reason = "Tendermint exited" -> "cancelled (reason: Tendermint exited)"
      [] reason = ErrUnsubscribed -> "cancelled (reason: unsubscribed)"
      [] OTHER -> "cancelled (reason: outOfCapacity)"

\* ---------------------------------------------------------- call records
NoEvent == [tx |-> 0, height |-> 0, result |-> EmptyDeliverTx]

\* The (nil, err) result of a broadcast call.
NilRes == [nil |-> TRUE, checkTx |-> "none", deliverTx |-> EmptyDeliverTx,
           hash |-> Hash(0), height |-> 0]

\* &ctypes.ResultBroadcastTxCommit{CheckTx, DeliverTx, Hash, Height}.
ResultBroadcastTxCommit(checkTx, deliverTx, hash, h) ==
    [nil |-> FALSE, checkTx |-> checkTx, deliverTx |-> deliverTx, hash |-> hash, height |-> h]

\* &ctypes.ResultBroadcastTx{Code, ..., Hash}.
ResultBroadcastTx(code, hash) ==
    [nil |-> FALSE, checkTx |-> code, deliverTx |-> EmptyDeliverTx, hash |-> hash, height |-> 0]

NoCall == [kind |-> "none", pc |-> "idle", tx |-> 0, atLimit |-> FALSE,
           subscribed |-> FALSE, deferred |-> FALSE, unsubCalled |-> FALSE, checkTxCalled |-> FALSE,
           chk |-> "none", checkTxRes |-> "none", gossip |-> "no",
           removed |-> FALSE, recv |-> NoEvent, res |-> NilRes, err |-> "nil"]

\* A return statement of BroadcastTxSync or BroadcastTxAsync.
Return(r, res, err) == [r EXCEPT !.res = res, !.err = err, !.pc = "done"]

\* The admission check with > for >=: it admits a call at the limit.
AdmissionError_OffByOne(subscriber) ==
    IF NumClients > MaxSubscriptionClients THEN "maxClients"
    ELSE IF NumClientSubscriptions(subscriber) > MaxSubscriptionsPerClient THEN "maxSubs"
    ELSE "nil"

\* The admission check at the head of BroadcastTxCommit: the error it
\* returns, "nil" when the call is admitted.
AdmissionError(subscriber) ==
    IF NumClients >= MaxSubscriptionClients THEN "maxClients"
    ELSE IF NumClientSubscriptions(subscriber) >= MaxSubscriptionsPerClient THEN "maxSubs"
    ELSE "nil"

\* A limit is reached: what the admission check is meant to observe.
LimitReached(subscriber) ==
    \/ NumClients >= MaxSubscriptionClients
    \/ NumClientSubscriptions(subscriber) >= MaxSubscriptionsPerClient

\* Mempool.CheckTx refuses a transaction it already holds or is validating
\* (and may refuse any other: pool full, pre-check).
InCache(tx) ==
    \/ TxKey(tx) \in pool
    \/ \E d \in Callers : call[d].tx = tx /\ call[d].chk = "pending"

\* ------------------------------------------------------ BroadcastTxCommit
\* A return that unsubscribes on the paths without an error only, as
\* explicit Unsubscribe calls in place of the defer would.
ReturnCommit_NoDeferOnError(c, r, res, err) ==
    LET key == <<LocalSubscriber, EventQueryTxFor(r.tx)>>
        runs == r.deferred /\ err = "nil" IN
    /\ call' = [call EXCEPT ![c] =
                   [r EXCEPT !.res = res, !.err = err, !.pc = "done",
                             !.unsubCalled = runs]]
    /\ IF runs
       THEN /\ sub' = [(IF bus[key] # NoOwner
                        THEN Cancel(sub, bus[key], ErrUnsubscribed)
                        ELSE sub) EXCEPT ![CallerSub(c)] = NoSub]
            /\ bus' = Unregister(bus, key)
       ELSE UNCHANGED <<bus, sub>>

\* A return statement of BroadcastTxCommit in call record r: the results
\* are set and, if the defer statement was reached, the deferred
\* EventBus.Unsubscribe(context.Background(), subscriber, q) runs: it
\* cancels whatever subscription the pair has and removes the pair. The
\* call's own subscription object goes with the call.
ReturnCommit(c, r, res, err) ==
    LET key == <<LocalSubscriber, EventQueryTxFor(r.tx)>> IN
    /\ call' = [call EXCEPT ![c] =
                   [r EXCEPT !.res = res, !.err = err, !.pc = "done",
                             !.unsubCalled = r.deferred]]
    /\ IF r.deferred
       THEN /\ sub' = [(IF bus[key] # NoOwner
                        THEN Cancel(sub, bus[key], ErrUnsubscribed)
                        ELSE sub) EXCEPT ![CallerSub(c)] = NoSub]
            /\ bus' = Unregister(bus, key)
       ELSE UNCHANGED <<bus, sub>>

\* if checkTxRes.Code != abci.CodeTypeOK, with the test left out.
CheckTxFailed_Never(code) == FALSE

\* if checkTxRes.Code != abci.CodeTypeOK.
CheckTxFailed(code) == code # CodeTypeOK

\* The result returned beside the gossip error, were the validation result
\* kept in it.
GossipFailedResult_Partial(r) ==
    ResultBroadcastTxCommit(r.checkTxRes, EmptyDeliverTx, Hash(r.tx), 0)

\* return nil, fmt.Errorf("tx added to local mempool but failure to
\* broadcast: %w", err): the result returned beside the gossip error.
GossipFailedResult(r) == NilRes

\* The result of an inclusion with the Height field left unset.
IncludedResult_NoHeight(r, msg) ==
    ResultBroadcastTxCommit(r.checkTxRes, msg.result, Hash(r.tx), 0)

\* The result built from the inclusion event msg.
IncludedResult(r, msg) ==
    ResultBroadcastTxCommit(r.checkTxRes, msg.result, Hash(r.tx), msg.height)

\* The result returned when the wait ends without an inclusion event.
PartialResult(r) ==
    ResultBroadcastTxCommit(r.checkTxRes, EmptyDeliverTx, Hash(r.tx), 0)

\* Entry and admission check.
BroadcastTxCommit(c, tx) ==
    /\ call[c].pc = "idle"
    /\ LET e == AdmissionError(LocalSubscriber)
           r == [call[c] EXCEPT !.kind = "commit", !.tx = tx,
                                !.atLimit = LimitReached(LocalSubscriber)] IN
       IF e # "nil"
       THEN ReturnCommit(c, r, NilRes, e)
       ELSE /\ call' = [call EXCEPT ![c] = [r EXCEPT !.pc = "subscribe"]]
            /\ UNCHANGED <<bus, sub>>
    /\ UNCHANGED <<running, height, pool, fwd>>

\* EventBus.Subscribe under the 5 s subscribeTimeout, and the defer
\* statement.
CommitSubscribe(c) ==
    /\ call[c].kind = "commit" /\ call[c].pc = "subscribe"
    /\ LET key == <<LocalSubscriber, EventQueryTxFor(call[c].tx)>> IN
       \E intime \in BOOLEAN :
          IF intime /\ CanSubscribe(key)
          THEN /\ bus' = [bus EXCEPT ![key] = CallerSub(c)]
               /\ sub' = [sub EXCEPT ![CallerSub(c)] = NoSub]
               /\ call' = [call EXCEPT ![c] = [@ EXCEPT !.subscribed = TRUE, !.deferred = TRUE,
                                                         !.pc = "checktx"]]
          ELSE ReturnCommit(c, call[c], NilRes, "subscribeFailed")
    /\ UNCHANGED <<running, height, pool, fwd>>

\* Mempool.CheckTx with the callback that fills checkTxResCh.
CommitCheckTx(c) ==
    /\ call[c].kind = "commit" /\ call[c].pc = "checktx"
    /\ \E accept \in BOOLEAN :
          LET r == [call[c] EXCEPT !.checkTxCalled = TRUE] IN
          IF accept /\ ~InCache(r.tx)
          THEN /\ call' = [call EXCEPT ![c] = [r EXCEPT !.chk = "pending", !.pc = "waitCheck"]]
               /\ UNCHANGED <<bus, sub>>
          ELSE ReturnCommit(c, r, NilRes, "mempoolErr")
    /\ UNCHANGED <<running, height, pool, fwd>>

\* checkTxResMsg := <-checkTxResCh and the non-OK return, else
\* P2P.GossipTx and the return on its failure.
CommitRecvCheck(c) ==
    /\ call[c].kind = "commit" /\ call[c].pc = "waitCheck"
    /\ call[c].chk \in {CodeTypeOK, CodeNotOK}
    /\ LET r == [call[c] EXCEPT !.checkTxRes = call[c].chk] IN
       IF CheckTxFailed(r.checkTxRes)
       THEN ReturnCommit(c, r, PartialResult(r), "nil")
       ELSE \E ok \in BOOLEAN :
               IF ok
               THEN /\ call' = [call EXCEPT ![c] = [r EXCEPT !.gossip = "ok", !.pc = "waitDeliver"]]
                    /\ UNCHANGED <<bus, sub>>
               ELSE ReturnCommit(c, [r EXCEPT !.gossip = "failed"],
                                 GossipFailedResult(r), "gossipFailed")
    /\ UNCHANGED <<running, height, pool, fwd>>

\* select, case msg := <-deliverTxSub.Out().
CommitIncluded(c) ==
    /\ call[c].kind = "commit" /\ call[c].pc = "waitDeliver"
    /\ Len(sub[CallerSub(c)].out) > 0
    /\ LET msg == Head(sub[CallerSub(c)].out)
           r == [call[c] EXCEPT !.recv = msg] IN
       ReturnCommit(c, r, IncludedResult(r, msg), "nil")
    /\ UNCHANGED <<running, height, pool, fwd>>

\* select, case <-deliverTxSub.Cancelled().
CommitCancelled(c) ==
    /\ call[c].kind = "commit" /\ call[c].pc = "waitDeliver"
    /\ sub[CallerSub(c)].cancelled
    /\ LET reason == IF sub[CallerSub(c)].err = "nil" THEN "Tendermint exited"
                     ELSE sub[CallerSub(c)].err
           r == call[c] IN
       ReturnCommit(c, r, PartialResult(r), CancelledError(reason))
    /\ UNCHANGED <<running, height, pool, fwd>>

\* select, case <-time.After(TimeoutBroadcastTxCommit).
CommitTimeout(c) ==
    /\ call[c].kind = "commit" /\ call[c].pc = "waitDeliver"
    /\ LET r == call[c] IN
       ReturnCommit(c, r, PartialResult(r), "timeout")
    /\ UNCHANGED <<running, height, pool, fwd>>

\* -------------------------------------------------------- BroadcastTxSync
\* Entry and Mempool.CheckTx with the callback that fills resCh.
BroadcastTxSync(c, tx) ==
    /\ call[c].pc = "idle"
    /\ \E accept \in BOOLEAN :
          LET r == [call[c] EXCEPT !.kind = "sync", !.tx = tx, !.checkTxCalled = TRUE] IN
          call' = [call EXCEPT ![c] =
                      IF accept /\ ~InCache(tx)
                      THEN [r EXCEPT !.chk = "pending", !.pc = "waitCheck"]
                      ELSE Return(r, NilRes, "mempoolErr")]
    /\ UNCHANGED <<running, bus, sub, height, pool, fwd>>

\* res := <-resCh; a non-OK validation is returned as the result.
SyncRecvCheck(c) ==
    /\ call[c].kind = "sync" /\ call[c].pc = "waitCheck"
    /\ call[c].chk \in {CodeTypeOK, CodeNotOK}
    /\ LET r == [call[c] EXCEPT !.checkTxRes = call[c].chk] IN
       call' = [call EXCEPT ![c] =
                   IF r.checkTxRes = CodeTypeOK
                   THEN [r EXCEPT !.pc = "gossip"]
                   ELSE Return(r, ResultBroadcastTx(r.checkTxRes, Hash(r.tx)), "nil")]
    /\ UNCHANGED <<running, bus, sub, height, pool, fwd>>

\* The gossip step returning its error at once, the removal left out.
SyncGossip_NoRemove(c) ==
    /\ call[c].kind = "sync" /\ call[c].pc = "gossip"
    /\ \E ok \in BOOLEAN :
          call' = [call EXCEPT ![c] =
                      IF ok
                      THEN Return([@ EXCEPT !.gossip = "ok"],
                                  ResultBroadcastTx(@.checkTxRes, Hash(@.tx)), "nil")
                      ELSE Return([@ EXCEPT !.gossip = "failed"], NilRes, "gossipFailed")]
    /\ UNCHANGED <<running, bus, sub, height, pool, fwd>>

\* P2P.GossipTx of a validated transaction.
SyncGossip(c) ==
    /\ call[c].kind = "sync" /\ call[c].pc = "gossip"
    /\ \E ok \in BOOLEAN :
          call' = [call EXCEPT ![c] =
                      IF ok
                      THEN Return([@ EXCEPT !.gossip = "ok"],
                                  ResultBroadcastTx(@.checkTxRes, Hash(@.tx)), "nil")
                      ELSE [@ EXCEPT !.gossip = "failed", !.pc = "remove"]]
    /\ UNCHANGED <<running, bus, sub, height, pool, fwd>>

\* Mempool.RemoveTxByKey(mempool.TxKey(tx), true), then the error return.
SyncRemove(c) ==
    /\ call[c].kind = "sync" /\ call[c].pc = "remove"
    /\ pool' = pool \ {TxKey(call[c].tx)}
    /\ call' = [call EXCEPT ![c] = Return([@ EXCEPT !.removed = TRUE], NilRes, "gossipFailed")]
    /\ UNCHANGED <<running, bus, sub, height, fwd>>

\* ------------------------------------------------------- BroadcastTxAsync
\* Entry and Mempool.CheckTx with no callback.
BroadcastTxAsync(c, tx) ==
    /\ call[c].pc = "idle"
    /\ \E accept \in BOOLEAN :
          LET r == [call[c] EXCEPT !.kind = "async", !.tx = tx, !.checkTxCalled = TRUE] IN
          call' = [call EXCEPT ![c] =
                      IF accept /\ ~InCache(tx)
                      THEN [r EXCEPT !.chk = "pending", !.pc = "gossip"]
                      ELSE Return(r, NilRes, "mempoolErr")]
    /\ UNCHANGED <<running, bus, sub, height, pool, fwd>>

\* The gossip step removing the transaction on failure, as
\* BroadcastTxSync does.
AsyncGossip_Remove(c) ==
    /\ call[c].kind = "async" /\ call[c].pc = "gossip"
    /\ \E ok \in BOOLEAN :
          /\ call' = [call EXCEPT ![c] =
                         IF ok
                         THEN Return([@ EXCEPT !.gossip = "ok"],
                                     ResultBroadcastTx("none", Hash(@.tx)), "nil")
                         ELSE Return([@ EXCEPT !.gossip = "failed"], NilRes, "gossipFailed")]
          /\ pool' = IF ok THEN pool ELSE pool \ {TxKey(call[c].tx)}
    /\ UNCHANGED <<running, bus, sub, height, fwd>>

\* P2P.GossipTx, optimistically, and the return.
AsyncGossip(c) ==
    /\ call[c].kind = "async" /\ call[c].pc = "gossip"
    /\ \E ok \in BOOLEAN :
          call' = [call EXCEPT ![c] =
                      IF ok
                      THEN Return([@ EXCEPT !.gossip = "ok"],
                                  ResultBroadcastTx("none", Hash(@.tx)), "nil")
                      ELSE Return([@ EXCEPT !.gossip = "failed"], NilRes, "gossipFailed")]
    /\ UNCHANGED <<running, bus, sub, height, pool, fwd>>

\* ---------------------------------------------------------------- mempool
\* The mempool finishes validating a transaction it accepted: it keeps the
\* transaction if the code is OK and hands the response to the callback.
MempoolRespond(c, code) ==
    /\ call[c].chk = "pending"
    /\ call' = [call EXCEPT ![c].chk = code]
    /\ pool' = IF code = CodeTypeOK THEN pool \cup {TxKey(call[c].tx)} ELSE pool
    /\ UNCHANGED <<running, bus, sub, height, fwd>>

\* ---------------------------------------------------------------- the bus
\* The subscription objects the registry feeds with query q.
Matching(q) == {bus[k] : k \in {k \in Keys : k[2] = q}} \ {NoOwner}

\* The subscription objects fed with the inclusion event of tx.
MatchingTx(tx) == Matching(EventQueryTxFor(tx))

\* A subscription takes one more message: it is unbuffered (the publisher
\* then waits for the reader) or its buffer has room.
HasRoom(s) == s.cap = 0 \/ Len(s.out) < s.cap

\* The bus publishes the inclusion event of tx in the next block. A
\* buffered subscription whose buffer is full is cancelled (out of
\* capacity) and removed; the publisher waits while an unbuffered one still
\* holds an unread message.
Publish(tx) ==
    /\ running
    /\ height < MaxHeight
    /\ \A id \in MatchingTx(tx) : sub[id].cap = 0 => Len(sub[id].out) = 0
    /\ LET h == height + 1
           msg == [tx |-> tx, height |-> h, result |-> DeliverTx(tx, h)] IN
       /\ sub' = [id \in SubIds |->
                     IF id \notin MatchingTx(tx) THEN sub[id]
                     ELSE IF HasRoom(sub[id])
                          THEN [sub[id] EXCEPT !.out = Append(@, msg),
                                               !.emitted = Append(@, msg)]
                          ELSE [sub[id] EXCEPT !.cancelled = TRUE, !.err = ErrOutOfCapacity]]
       /\ bus' = [k \in Keys |->
                     IF bus[k] \in MatchingTx(tx) /\ ~HasRoom(sub[bus[k]])
                     THEN NoOwner ELSE bus[k]]
    /\ height' = height + 1
    /\ UNCHANGED <<running, pool, call, fwd>>

\* The node stops: the bus quits and cancels every subscription with a nil
\* cause.
Stop ==
    /\ running
    /\ running' = FALSE
    /\ sub' = [id \in SubIds |->
                  IF \E k \in Keys : bus[k] = id
                  THEN [sub[id] EXCEPT !.cancelled = TRUE, !.err = "nil"]
                  ELSE sub[id]]
    /\ bus' = [k \in Keys |-> NoOwner]
    /\ UNCHANGED <<height, pool, call, fwd>>

\* ----------------------------------------------------- Client.Subscribe
NoFwd == [pc |-> "idle", subscriber |-> 0, query |-> <<BadQuery>>, cap |-> 1,
          atLimit |-> FALSE, attempts |-> 0, delay |-> 0,
          held |-> NoEvent, outc |-> <<>>, err |-> "nil",
          resubscribed |-> FALSE, received |-> <<>>]

\* The outCapacity variadic argument: absent, or one value.
OutCapacityArgs == {<<>>} \cup {<<n>> : n \in Capacities}

\* outCap := 1; if len(outCapacity) > 0 { outCap = outCapacity[0] }.
OutCap(outCapacity) == IF Len(outCapacity) > 0 THEN outCapacity[1] ELSE 1

\* Client.Subscribe(ctx, subscriber, query, outCapacity...): parse the
\* query, subscribe on the bus (buffered or unbuffered), start the forwarder.
Subscribe(u, subscriber, query, outCapacity) ==
    /\ fwd[u].pc = "idle"
    /\ LET r == [fwd[u] EXCEPT !.subscriber = subscriber, !.query = query,
                               !.cap = OutCap(outCapacity),
                               !.atLimit = LimitReached(subscriber)]
           key == <<subscriber, query>> IN
       IF query = <<BadQuery>>
       THEN /\ fwd' = [fwd EXCEPT ![u] = [r EXCEPT !.pc = "failed", !.err = "parse"]]
            /\ UNCHANGED <<bus, sub>>
       ELSE \E intime \in BOOLEAN :
               IF intime /\ CanSubscribe(key)
               THEN /\ bus' = [bus EXCEPT ![key] = UserSub(u)]
                    /\ sub' = [sub EXCEPT ![UserSub(u)] = [NoSub EXCEPT !.cap = r.cap]]
                    /\ fwd' = [fwd EXCEPT ![u] = [r EXCEPT !.pc = "forwarding"]]
               ELSE /\ fwd' = [fwd EXCEPT ![u] = [r EXCEPT !.pc = "failed", !.err = "subscribeFailed"]]
                    /\ UNCHANGED <<bus, sub>>
    /\ UNCHANGED <<running, height, pool, call>>

\* Client.Unsubscribe(ctx, subscriber, query) of a registered pair.
Unsubscribe(subscriber, query) ==
    /\ running
    /\ bus[<<subscriber, query>>] # NoOwner
    /\ sub' = Cancel(sub, bus[<<subscriber, query>>], ErrUnsubscribed)
    /\ bus' = Unregister(bus, <<subscriber, query>>)
    /\ UNCHANGED <<running, height, pool, call, fwd>>

\* ----------------------------------------------------------- eventsRoutine
\* A forwarder that forwards the event it took but leaves it at the head of
\* the subscription's channel.
FwdEvent_Requeue(u) ==
    /\ fwd[u].pc = "forwarding"
    /\ fwd[u].cap > 0
    /\ Len(sub[UserSub(u)].out) > 0
    /\ Len(fwd[u].outc) < fwd[u].cap
    /\ fwd' = [fwd EXCEPT ![u].outc = Append(@, Head(sub[UserSub(u)].out))]
    /\ UNCHANGED <<running, bus, sub, height, pool, call>>

\* A forwarder that makes room in a full outc by discarding the oldest
\* buffered event.
FwdEvent_Overwrite(u) ==
    /\ fwd[u].pc = "forwarding"
    /\ Len(sub[UserSub(u)].out) > 0
    /\ LET msg == Head(sub[UserSub(u)].out) IN
       /\ sub' = [sub EXCEPT ![UserSub(u)].out = Tail(@)]
       /\ fwd' = [fwd EXCEPT ![u] =
                     IF @.cap = 0 THEN [@ EXCEPT !.pc = "sending", !.held = msg]
                     ELSE IF Len(@.outc) < @.cap THEN [@ EXCEPT !.outc = Append(@, msg)]
                     ELSE [@ EXCEPT !.outc = Append(Tail(@), msg)]]
    /\ UNCHANGED <<running, bus, height, pool, call>>

\* case msg := <-sub.Out(): forward the event, blocking on an unbuffered
\* outc, dropping it when a buffered outc is full.
FwdEvent(u) ==
    /\ fwd[u].pc = "forwarding"
    /\ Len(sub[UserSub(u)].out) > 0
    /\ LET msg == Head(sub[UserSub(u)].out) IN
       /\ sub' = [sub EXCEPT ![UserSub(u)].out = Tail(@)]
       /\ fwd' = [fwd EXCEPT ![u] =
                     IF @.cap = 0 THEN [@ EXCEPT !.pc = "sending", !.held = msg]
                     ELSE IF Len(@.outc) < @.cap THEN [@ EXCEPT !.outc = Append(@, msg)]
                     ELSE @]
    /\ UNCHANGED <<running, bus, height, pool, call>>

\* A forwarder that resubscribes whatever the cause of the cancellation.
FwdCancelled_AlwaysResubscribe(u) ==
    /\ fwd[u].pc = "forwarding"
    /\ sub[UserSub(u)].cancelled
    /\ fwd' = [fwd EXCEPT ![u] = [@ EXCEPT !.pc = "resubscribe", !.attempts = 0]]
    /\ UNCHANGED <<running, bus, sub, height, pool, call>>

\* case <-sub.Cancelled(): return on ErrUnsubscribed, else resubscribe.
FwdCancelled(u) ==
    /\ fwd[u].pc = "forwarding"
    /\ sub[UserSub(u)].cancelled
    /\ fwd' = [fwd EXCEPT ![u] =
                  IF sub[UserSub(u)].err = ErrUnsubscribed
                  THEN [@ EXCEPT !.pc = "exited"]
                  ELSE [@ EXCEPT !.pc = "resubscribe", !.attempts = 0]]
    /\ UNCHANGED <<running, bus, sub, height, pool, call>>

\* case <-c.Quit(): return.
FwdQuit(u) ==
    /\ fwd[u].pc = "forwarding"
    /\ ~running
    /\ fwd' = [fwd EXCEPT ![u].pc = "exited"]
    /\ UNCHANGED <<running, bus, sub, height, pool, call>>

\* The delay slept after the given number of failed attempts, in ms.
Backoff(attempts) == 10 * (2 ^ attempts)

\* One turn of the resubscribe loop: give up when the client is stopped,
\* else EventBus.Subscribe(context.Background(), subscriber, q); on an
\* error count the attempt and sleep.
resubscribe(u) ==
    /\ fwd[u].pc = "resubscribe"
    /\ LET key == <<fwd[u].subscriber, fwd[u].query>> IN
       IF ~running
       THEN /\ fwd' = [fwd EXCEPT ![u].pc = "exited"]
            /\ UNCHANGED <<bus, sub>>
       ELSE IF CanSubscribe(key)
       THEN /\ bus' = [bus EXCEPT ![key] = UserSub(u)]
            /\ sub' = [sub EXCEPT ![UserSub(u)] =
                          [NoSub EXCEPT !.emitted = sub[UserSub(u)].emitted]]
            /\ fwd' = [fwd EXCEPT ![u] = [@ EXCEPT !.pc = "forwarding",
                                                   !.resubscribed = TRUE]]
       ELSE /\ fwd[u].attempts < MaxAttempts
            /\ fwd' = [fwd EXCEPT ![u] = [@ EXCEPT !.attempts = @ + 1,
                                                   !.delay = Backoff(fwd[u].attempts + 1),
                                                   !.pc = "sleep"]]
            /\ UNCHANGED <<bus, sub>>
    /\ UNCHANGED <<running, height, pool, call>>

\* time.Sleep returns.
FwdWake(u) ==
    /\ fwd[u].pc = "sleep"
    /\ fwd' = [fwd EXCEPT ![u].pc = "resubscribe"]
    /\ UNCHANGED <<running, bus, sub, height, pool, call>>

\* The consumer of the stream reads one event from outc.
Read(u) ==
    /\ \/ /\ fwd[u].pc = "sending"
          /\ fwd' = [fwd EXCEPT ![u] = [@ EXCEPT !.pc = "forwarding", !.held = NoEvent,
                                                 !.received = Append(@, fwd[u].held)]]
       \/ /\ fwd[u].pc # "sending"
          /\ Len(fwd[u].outc) > 0
          /\ fwd' = [fwd EXCEPT ![u] = [@ EXCEPT !.outc = Tail(@),
                                                 !.received = Append(@, Head(fwd[u].outc))]]
    /\ UNCHANGED <<running, bus, sub, height, pool, call>>

\* ------------------------------------------------------------- pagination
defaultPerPage == 30
maxPerPage == 100

\* An optional integer argument (*int): <<>> is nil, <<n>> points to n.
PerPageArgs == {<<>>} \cup {<<n>> : n \in (0 - 1)..(maxPerPage + 1)}
PageArgs == {<<>>} \cup {<<n>> : n \in (0 - 1)..MaxPage}

\* Integer division of Go: the quotient is truncated toward zero.
GoDiv(a, b) == IF a >= 0 THEN a \div b ELSE 0 - ((0 - a) \div b)

\* tmmath.MinInt.
MinInt(a, b) == IF a < b THEN a ELSE b

\* A per-page validator that clamps a value below 1 to 1.
validatePerPage_ClampLow(perPagePtr) ==
    IF perPagePtr = <<>> THEN defaultPerPage
    ELSE IF perPagePtr[1] < 1 THEN 1
    ELSE IF perPagePtr[1] > maxPerPage THEN maxPerPage
    ELSE perPagePtr[1]

validatePerPage(perPagePtr) ==
    IF perPagePtr = <<>> THEN defaultPerPage
    ELSE IF perPagePtr[1] < 1 THEN defaultPerPage
    ELSE IF perPagePtr[1] > maxPerPage THEN maxPerPage
    ELSE perPagePtr[1]

\* A page count without the floor of one page.
Pages_NoFloor(perPage, totalCount) == GoDiv(totalCount - 1, perPage) + 1

\* pages := ((totalCount - 1) / perPage) + 1; if pages == 0 { pages = 1 }.
Pages(perPage, totalCount) ==
    LET pages == GoDiv(totalCount - 1, perPage) + 1 IN
    IF pages = 0 THEN 1 ELSE pages

\* A page validator that clamps an out-of-range page into the range.
validatePage_Clamp(pagePtr, perPage, totalCount) ==
    IF pagePtr = <<>> THEN [page |-> 1, err |-> "nil", pages |-> 0]
    ELSE LET pages == Pages(perPage, totalCount) IN
         [page |-> IF pagePtr[1] <= 0 THEN 1
                   ELSE IF pagePtr[1] > pages THEN pages ELSE pagePtr[1],
          err |-> "nil", pages |-> pages]

\* validatePage: (page, err); pages is the upper end of the range the error
\* names (0 when the function returns before computing it).
validatePage(pagePtr, perPage, totalCount) ==
    IF perPage < 1 THEN [page |-> 0, err |-> "panic", pages |-> 0]
    ELSE IF pagePtr = <<>> THEN [page |-> 1, err |-> "nil", pages |-> 0]
    ELSE LET pages == Pages(perPage, totalCount)
             page == pagePtr[1] IN
         IF page <= 0 \/ page > pages
         THEN [page |-> 1, err |-> "pageRange", pages |-> pages]
         ELSE [page |-> page, err |-> "nil", pages |-> pages]

validateSkipCount(page, perPage) ==
    LET skipCount == (page - 1) * perPage IN
    IF skipCount < 0 THEN 0 ELSE skipCount

\* Lines 437-446 of TxSearch on a result set of totalCount hits.
Pagination(totalCount, pagePtr, perPagePtr) ==
    LET perPage == validatePerPage(perPagePtr)
        vp == validatePage(pagePtr, perPage, totalCount)
        skipCount == validateSkipCount(vp.page, perPage) IN
    [totalCount |-> totalCount, perPage |-> perPage, page |-> vp.page,
     pages |-> vp.pages, err |-> vp.err, skipCount |-> skipCount,
     pageSize |-> MinInt(perPage, totalCount - skipCount)]

\* --------------------------------------------------------------- TxSearch
\* What the indexer holds: a transaction at each (height, index) position.
HitHeights == {5, 7}
HitIndexes == {0, 1, 2}
Hit(h, i) == [height |-> h, index |-> i, tx |-> <<h, i>>]
Hits == {Hit(h, i) : h \in HitHeights, i \in HitIndexes}

\* What TxIndexer.Search may return: up to MaxHits distinct hits in any order.
HitLists ==
    UNION {{r \in [1..n -> Hits] : \A i, j \in 1..n : i # j => r[i] # r[j]}
           : n \in 0..MaxHits}

\* TxIndexer.Search: an error, or a list of hits.
SearchOutcomes ==
    {[err |-> FALSE, results |-> r] : r \in HitLists}
        \cup {[err |-> TRUE, results |-> <<>>]}

\* The order_by tokens a caller sends.
Orders == {"", "asc", "desc", "bad"}

\* The per_page arguments of a TxSearch: nil and the values around the ends
\* of the valid range and the default.
SearchPerPageArgs ==
    {<<>>} \cup {<<n>> : n \in {0 - 1, 0, 1, 2, defaultPerPage, maxPerPage, maxPerPage + 1}}

\* The comparator of case "asc", "".
LessAsc(a, b) ==
    IF a.height = b.height THEN a.index < b.index ELSE a.height < b.height

\* A descending comparator that breaks ties by ascending index.
LessDesc_TieAsc(a, b) ==
    IF a.height = b.height THEN a.index < b.index ELSE a.height > b.height

\* The comparator of case "desc".
LessDesc(a, b) ==
    IF a.height = b.height THEN a.index > b.index ELSE a.height > b.height

Less(orderBy, a, b) == IF orderBy = "desc" THEN LessDesc(a, b) ELSE LessAsc(a, b)

\* sort.Slice(results, less), computed by insertion.
RECURSIVE Insert(_, _, _)
Insert(x, sorted, orderBy) ==
    IF sorted = <<>> THEN <<x>>
    ELSE IF Less(orderBy, x, Head(sorted)) THEN <<x>> \o sorted
    ELSE <<Head(sorted)>> \o Insert(x, Tail(sorted), orderBy)

RECURSIVE SortSlice(_, _)
SortSlice(results, orderBy) ==
    IF results = <<>> THEN <<>>
    ELSE Insert(Head(results), SortSlice(Tail(results), orderBy), orderBy)

\* &ctypes.ResultTx{Hash, Height, Index, Tx}.
ResultTx(r) == [hash |-> Hash(r.tx), height |-> r.height, index |-> r.index, tx |-> r.tx]

\* A TxSearch call that returned nothing yet.
NoSearch == [sorted |-> <<>>, pagination |-> Pagination(0, <<>>, <<>>),
             txs |-> <<>>, totalCount |-> 0, nil |-> TRUE, err |-> "nil"]

\* The loop of lines 448-466 and the return: the page of the sorted results.
\* An index outside the results, or a negative page size, is a run-time panic.
Page(sorted, pg) ==
    IF pg.pageSize < 0 \/ pg.skipCount + pg.pageSize > Len(sorted)
    THEN [NoSearch EXCEPT !.sorted = sorted, !.pagination = pg, !.err = "panic"]
    ELSE [sorted |-> sorted, pagination |-> pg,
          txs |-> [i \in 1..pg.pageSize |-> ResultTx(sorted[pg.skipCount + i])],
          totalCount |-> pg.totalCount, nil |-> FALSE, err |-> "nil"]

\* The outcome of TxSearch(ctx, query, prove, pagePtr, perPagePtr, orderBy)
\* when the indexer answers found.
TxSearchResult(query, found, pagePtr, perPagePtr, orderBy) ==
    IF query = <<BadQuery>> THEN [NoSearch EXCEPT !.err = "parse"]
    ELSE IF found.err THEN [NoSearch EXCEPT !.err = "search"]
    ELSE IF orderBy \notin {"desc", "asc", ""} THEN [NoSearch EXCEPT !.err = "orderBy"]
    ELSE LET sorted == SortSlice(found.results, orderBy)
             pg == Pagination(Len(sorted), pagePtr, perPagePtr) IN
         IF pg.err # "nil"
         THEN [NoSearch EXCEPT !.sorted = sorted, !.pagination = pg, !.err = pg.err]
         ELSE Page(sorted, pg)

\* Client.TxSearch.
TxSearch(c, query, found, pagePtr, perPagePtr, orderBy) ==
    /\ call[c].pc = "idle"
    /\ call' = [call EXCEPT ![c] =
                   [kind |-> "search", pc |-> "done", query |-> query,
                    found |-> found, pagePtr |-> pagePtr,
                    perPagePtr |-> perPagePtr, orderBy |-> orderBy,
                    out |-> TxSearchResult(query, found, pagePtr, perPagePtr, orderBy)]]
    /\ UNCHANGED <<running, bus, sub, height, pool, fwd>>

\* The pagination of TxSearch applied to a result set of totalCount hits.
Paginate(c, totalCount, pagePtr, perPagePtr) ==
    /\ call[c].pc = "idle"
    /\ call' = [call EXCEPT ![c] =
                   [kind |-> "paginate", pc |-> "done", pagePtr |-> pagePtr,
                    perPagePtr |-> perPagePtr,
                    pagination |-> Pagination(totalCount, pagePtr, perPagePtr)]]
    /\ UNCHANGED <<running, bus, sub, height, pool, fwd>>

\* Client.UnconfirmedTxs: the limit goes through the per_page validator.
UnconfirmedTxs(c, limitPtr) ==
    /\ call[c].pc = "idle"
    /\ LET limit == validatePerPage(limitPtr) IN
       call' = [call EXCEPT ![c] =
                   [kind |-> "unconfirmed", pc |-> "done", limitPtr |-> limitPtr,
                    limit |-> limit, count |-> MinInt(limit, Cardinality(pool)),
                    total |-> Cardinality(pool)]]
    /\ UNCHANGED <<running, bus, sub, height, pool, fwd>>

\* ------------------------------------------------------------ DA registry
\* var clients: the factory registered under each name, here the type of
\* the client it builds.
clients == [mock |-> "MockDataAvailabilityLayerClient",
            grpc |-> "DataAvailabilityLayerClient"]

\* The names a caller may ask for.
ClientNames == {"mock", "grpc", "celestia", ""}

\* registry.GetClient(name): clients[name](). The map yields a nil function
\* for a name that is not registered, and calling it is a run-time panic.
GetClient(c, name) ==
    /\ call[c].pc = "idle"
    /\ call' = [call EXCEPT ![c] =
                   IF name \in DOMAIN clients
                   THEN [kind |-> "getClient", pc |-> "done", name |-> name,
                         panic |-> FALSE, err |-> "nil",
                         client |-> [type |-> clients[name], instance |-> c]]
                   ELSE [kind |-> "getClient", pc |-> "done", name |-> name,
                         panic |-> TRUE, err |-> "nil",
                         client |-> [type |-> "none", instance |-> 0]]]
    /\ UNCHANGED <<running, bus, sub, height, pool, fwd>>

\* ------------------------------------------------------------ the system
Init ==
    /\ running = TRUE
    /\ bus = [k \in Keys |-> NoOwner]
    /\ sub = [id \in SubIds |-> NoSub]
    /\ height = 0
    /\ pool = {}
    /\ call = [c \in Callers |-> NoCall]
    /\ fwd = [u \in Users |-> NoFwd]

\* The steps of BroadcastTxCommit calls.
CommitNext ==
    \/ \E c \in Callers, tx \in Txs : BroadcastTxCommit(c, tx)
    \/ \E c \in Callers : CommitSubscribe(c)
    \/ \E c \in Callers : CommitCheckTx(c)
    \/ \E c \in Callers : CommitRecvCheck(c)
    \/ \E c \in Callers : CommitIncluded(c)
    \/ \E c \in Callers : CommitCancelled(c)
    \/ \E c \in Callers : CommitTimeout(c)

\* The steps of BroadcastTxSync and BroadcastTxAsync calls.
BroadcastNext ==
    \/ \E c \in Callers, tx \in Txs : BroadcastTxSync(c, tx)
    \/ \E c \in Callers : SyncRecvCheck(c)
    \/ \E c \in Callers : SyncGossip(c)
    \/ \E c \in Callers : SyncRemove(c)
    \/ \E c \in Callers, tx \in Txs : BroadcastTxAsync(c, tx)
    \/ \E c \in Callers : AsyncGossip(c)

\* The mempool validating what it accepted.
MempoolNext ==
    \E c \in Callers, code \in {CodeTypeOK, CodeNotOK} : MempoolRespond(c, code)

\* The bus: block inclusion and shutdown.
BusNext ==
    \/ \E tx \in Txs : Publish(tx)
    \/ Stop

\* Client.Subscribe sessions and their forwarders.
SubscribeNext ==
    \/ \E u \in Users, s \in Subscribers, q \in Queries \cup {<<BadQuery>>},
          a \in OutCapacityArgs : Subscribe(u, s, q, a)
    \/ \E s \in Subscribers, q \in Queries : Unsubscribe(s, q)
    \/ \E u \in Users : FwdEvent(u)
    \/ \E u \in Users : FwdCancelled(u)
    \/ \E u \in Users : FwdQuit(u)
    \/ \E u \in Users : resubscribe(u)
    \/ \E u \in Users : FwdWake(u)
    \/ \E u \in Users : Read(u)

\* Commit calls against the bus and the mempool.
Next == CommitNext \/ MempoolNext \/ BusNext

Spec == Init /\ [][Next]_vars

\* Sync and async calls against the mempool.
NextBroadcast == BroadcastNext \/ MempoolNext

SpecBroadcast == Init /\ [][NextBroadcast]_vars

\* Commit calls beside Client.Subscribe sessions.
NextSubscribe == CommitNext \/ MempoolNext \/ BusNext \/ SubscribeNext

SpecSubscribe == Init /\ [][NextSubscribe]_vars

\* The steps of one commit call after its entry.
CommitStep(c) ==
    \/ CommitSubscribe(c)
    \/ CommitCheckTx(c)
    \/ CommitRecvCheck(c)
    \/ CommitIncluded(c)
    \/ CommitCancelled(c)
    \/ CommitTimeout(c)

\* The steps of one Client.Subscribe session: the call, its forwarder and
\* the consumer of its stream.
SessionStep(u) ==
    \/ \E s \in Subscribers, q \in Queries \cup {<<BadQuery>>},
          a \in OutCapacityArgs : Subscribe(u, s, q, a)
    \/ FwdEvent(u)
    \/ FwdCancelled(u)
    \/ FwdQuit(u)
    \/ resubscribe(u)
    \/ FwdWake(u)
    \/ Read(u)

\* One Client.Subscribe session followed from its call to the exit of its
\* forwarder, beside explicit unsubscribes, the bus, and one BroadcastTxCommit
\* call up to its submission to the mempool (it holds the pair of the local
\* subscriber and its transaction until it returns).
TheUser == CHOOSE u \in Users : TRUE
TheCaller == CHOOSE c \in Callers : TRUE

NextForward ==
    \/ SessionStep(TheUser)
    \/ \E s \in Subscribers, q \in Queries : Unsubscribe(s, q)
    \/ \E tx \in Txs : BroadcastTxCommit(TheCaller, tx)
    \/ CommitSubscribe(TheCaller)
    \/ CommitCheckTx(TheCaller)
    \/ BusNext

SpecForward == Init /\ [][NextForward]_vars

\* The steps of the forwarding task of one session (eventsRoutine and the
\* resubscribe loop it calls).
ForwarderStep(u) ==
    \/ FwdEvent(u)
    \/ FwdCancelled(u)
    \/ FwdQuit(u)
    \/ resubscribe(u)
    \/ FwdWake(u)

\* The session of SpecForward with its forwarding task scheduled fairly: a
\* forwarder that can take a step (a sleep that ended included) eventually
\* takes one. Nothing obliges the consumer to read the stream.
LiveForward ==
    Init /\ [][NextForward]_vars /\ \A u \in Users : WF_vars(ForwarderStep(u))

\* One stateless call (TxSearch, its pagination, UnconfirmedTxs, the DA
\* registry's GetClient) on its inputs.
NextSearch ==
    \/ /\ call[TheCaller].pc = "idle"
       /\ \E query \in {<<OtherQuery>>, <<BadQuery>>}, found \in SearchOutcomes,
             pagePtr \in PageArgs, perPagePtr \in SearchPerPageArgs,
             orderBy \in Orders :
             TxSearch(TheCaller, query, found, pagePtr, perPagePtr, orderBy)
    \/ /\ call[TheCaller].pc = "idle"
       /\ \E totalCount \in 0..MaxTotal, pagePtr \in PageArgs,
             perPagePtr \in PerPageArgs :
             Paginate(TheCaller, totalCount, pagePtr, perPagePtr)
    \/ /\ call[TheCaller].pc = "idle"
       /\ \E limitPtr \in PerPageArgs : UnconfirmedTxs(TheCaller, limitPtr)
    \/ \E name \in ClientNames : GetClient(TheCaller, name)

SpecSearch == Init /\ [][NextSearch]_vars

\* Commit calls whose tasks are scheduled fairly: a call that can take a
\* step (a timer that fired included) eventually takes one. Nothing obliges
\* the mempool to answer, the bus to publish or the node to stop.
LiveSpec == Init /\ [][Next]_vars /\ \A c \in Callers : WF_vars(CommitStep(c))

\* ================================================================ claims
Commit(c) == call[c].kind = "commit"
Sync(c) == call[c].kind = "sync"
Async(c) == call[c].kind = "async"
Done(c) == call[c].pc = "done"

\* C1: a BroadcastTxCommit call that established its subscription has
\* invoked Unsubscribe for its (subscriber, query) pair when it returns,
\* whatever the exit path, and its subscription is off the bus.
C1_UnsubscribedOnEveryExit ==
    \A c \in Callers :
        (Commit(c) /\ Done(c) /\ call[c].subscribed) =>
            /\ call[c].unsubCalled
            /\ \A k \in Keys : bus[k] # CallerSub(c)

\* A call that subscribed and returned on the mempool's submission error,
\* followed by one that returned on its inclusion event.
C1_Witness ==
    \E c, d \in Callers :
        /\ Commit(c) /\ Done(c) /\ call[c].subscribed /\ call[c].err = "mempoolErr"
        /\ call[c].unsubCalled
        /\ Commit(d) /\ Done(d) /\ call[d].subscribed /\ call[d].recv # NoEvent
        /\ call[d].unsubCalled

\* C2: every BroadcastTxCommit call that was entered eventually returns.
C2_EveryCommitCallReturns ==
    \A c \in Callers : (call[c].pc # "idle") ~> Done(c)

C4_NonOKValidationReturnedWithoutGossip ==
    \A c \in Callers :
        (Commit(c) /\ call[c].checkTxRes = CodeNotOK) =>
            /\ Done(c)
            /\ call[c].err = "nil"
            /\ call[c].res = [nil |-> FALSE, checkTx |-> CodeNotOK,
                              deliverTx |-> EmptyDeliverTx,
                              hash |-> Hash(call[c].tx), height |-> 0]
            /\ call[c].gossip = "no"

\* A call whose validation came back non-OK.
C4_Witness ==
    \E c \in Callers :
        Commit(c) /\ Done(c) /\ call[c].checkTxRes = CodeNotOK /\ call[c].subscribed

\* C5: after an OK validation and a successful gossip, the result carries
\* the height and execution result of an inclusion event exactly when one
\* was received on the subscription, and then the error is nil; otherwise
\* (timeout, cancellation) the error is non-nil and the result holds the
\* validation result and the hash with height 0 and an empty inclusion
\* result.
C5_InclusionIffEventReceived ==
    \A c \in Callers :
        (Commit(c) /\ Done(c) /\ call[c].gossip = "ok") =>
            /\ ~call[c].res.nil
            /\ call[c].res.checkTx = CodeTypeOK
            /\ call[c].res.hash = Hash(call[c].tx)
            /\ IF call[c].recv # NoEvent
               THEN /\ call[c].err = "nil"
                    /\ call[c].recv.tx = call[c].tx
                    /\ call[c].recv.height \in Heights
                    /\ call[c].res.height = call[c].recv.height
                    /\ call[c].res.deliverTx = call[c].recv.result
                    /\ call[c].res.deliverTx # EmptyDeliverTx
               ELSE /\ call[c].err \in {"timeout",
                                        "cancelled (reason: Tendermint exited)",
                                        "cancelled (reason: unsubscribed)",
                                        "cancelled (reason: outOfCapacity)"}
                    /\ call[c].res.height = 0
                    /\ call[c].res.deliverTx = EmptyDeliverTx

\* A call that returned the inclusion event of the second block.
C5_Witness ==
    \E c \in Callers :
        /\ Commit(c) /\ Done(c) /\ call[c].gossip = "ok"
        /\ call[c].recv # NoEvent /\ call[c].res.height = MaxHeight

\* C6: admission check, then subscription, then mempool: a call entered at
\* a reached limit, or whose subscription was not established, returns an
\* error with neither Mempool.CheckTx nor GossipTx invoked; CheckTx is only
\* ever invoked by a call that holds its subscription.
C6_AdmissionThenSubscribeThenMempool ==
    \A c \in Callers :
        Commit(c) =>
            /\ call[c].atLimit =>
                   /\ Done(c) /\ ~call[c].subscribed
                   /\ call[c].err \in {"maxClients", "maxSubs"}
            /\ (call[c].pc \notin {"idle", "subscribe"} /\ ~call[c].subscribed) =>
                   /\ Done(c)
                   /\ call[c].err \in {"maxClients", "maxSubs", "subscribeFailed"}
                   /\ call[c].res = NilRes
                   /\ ~call[c].checkTxCalled
                   /\ call[c].gossip = "no"
            /\ call[c].checkTxCalled => call[c].subscribed
            /\ call[c].gossip # "no" => call[c].checkTxCalled

\* A call rejected at the limit while another holds its subscription and
\* has submitted to the mempool.
C6_Witness ==
    \E c, d \in Callers :
        /\ Commit(c) /\ call[c].atLimit /\ Done(c) /\ call[c].err = "maxSubs"
        /\ Commit(d) /\ call[d].subscribed /\ call[d].checkTxCalled

\* C7: Client.Subscribe fails, and registers nothing on the bus, whenever a
\* limit is reached at the time of the call.
C7_SubscribeRejectedAtLimit ==
    \A u \in Users :
        fwd[u].atLimit =>
            /\ fwd[u].pc = "failed"
            /\ \A k \in Keys : bus[k] # UserSub(u)

\* C8: the number of subscribers on the bus never exceeds the maximum
\* subscriber count, and no subscriber has more subscriptions than the
\* per-subscriber maximum.
C8_CountersWithinLimits ==
    /\ NumClients <= MaxSubscriptionClients
    /\ \A s \in Subscribers : NumClientSubscriptions(s) <= MaxSubscriptionsPerClient

\* C9: in BroadcastTxSync GossipTx is invoked exactly when validation
\* returned OK; the transaction is removed from the mempool by its key
\* exactly when gossip was attempted and failed, before the error is
\* returned; a non-OK validation is returned as the result with a nil error
\* and nothing is removed. The mempool only ever loses a key to such a
\* removal.
C9_SyncGossipsIffOKRemovesIffGossipFailed ==
    /\ [](\A c \in Callers :
            Sync(c) =>
                /\ call[c].gossip # "no" => call[c].checkTxRes = CodeTypeOK
                /\ call[c].removed => call[c].gossip = "failed"
                /\ Done(c) =>
                      /\ call[c].gossip # "no" <=> call[c].checkTxRes = CodeTypeOK
                      /\ call[c].removed <=> call[c].gossip = "failed"
                      /\ call[c].gossip = "failed" =>
                            call[c].err = "gossipFailed" /\ call[c].res = NilRes
                      /\ call[c].gossip = "ok" =>
                            /\ call[c].err = "nil"
                            /\ call[c].res = [nil |-> FALSE, checkTx |-> CodeTypeOK,
                                              deliverTx |-> EmptyDeliverTx,
                                              hash |-> Hash(call[c].tx), height |-> 0]
                /\ call[c].checkTxRes = CodeNotOK =>
                      /\ Done(c) /\ call[c].err = "nil" /\ ~call[c].removed
                      /\ call[c].res = [nil |-> FALSE, checkTx |-> CodeNotOK,
                                        deliverTx |-> EmptyDeliverTx,
                                        hash |-> Hash(call[c].tx), height |-> 0])
    /\ [][/\ \A c \in Callers :
               (Sync(c) /\ ~call[c].removed /\ call'[c].removed) =>
                   TxKey(call[c].tx) \notin pool'
          /\ \A k \in pool \ pool' :
               \E c \in Callers :
                   /\ Sync(c) /\ call[c].gossip = "failed"
                   /\ ~call[c].removed /\ call'[c].removed
                   /\ k = TxKey(call[c].tx)]_vars

\* A sync call whose gossip failed after an OK validation put the
\* transaction in the mempool, and which removed it.
C9_Witness ==
    \E c \in Callers :
        /\ Sync(c) /\ Done(c) /\ call[c].gossip = "failed" /\ call[c].removed
        /\ call[c].chk = CodeTypeOK
        /\ TxKey(call[c].tx) \notin pool

\* C10: in BroadcastTxAsync a mempool submission error is returned with
\* GossipTx never invoked; when gossip fails after the mempool accepted the
\* transaction the call returns an error and removes nothing: the step
\* leaves the mempool as it is.
C10_AsyncGossipFailureKeepsTx ==
    /\ [](\A c \in Callers :
            Async(c) =>
                /\ call[c].err = "mempoolErr" =>
                      Done(c) /\ call[c].gossip = "no" /\ call[c].res = NilRes
                /\ call[c].gossip = "failed" =>
                      /\ Done(c) /\ call[c].err = "gossipFailed" /\ call[c].res = NilRes
                      /\ ~call[c].removed)
    /\ [][\A c \in Callers :
              (Async(c) /\ call[c].pc = "gossip" /\ call'[c].pc = "done") =>
                  pool' = pool]_vars

\* An async call whose gossip failed while the mempool holds its
\* transaction.
C10_Witness ==
    \E c \in Callers :
        /\ Async(c) /\ Done(c) /\ call[c].gossip = "failed"
        /\ TxKey(call[c].tx) \in pool

\* ------------------------------------------------------------------ C11
Range(seq) == {seq[i] : i \in 1..Len(seq)}

\* The forwarder of u takes the next event of its bus subscription.
TakesEvent(u) ==
    /\ fwd[u].pc = "forwarding"
    /\ sub[UserSub(u)].out # <<>>
    /\ sub'[UserSub(u)].out = Tail(sub[UserSub(u)].out)

\* C11: with capacity > 0 the forwarder never waits on the delivery channel:
\* an event taken while the channel is full is dropped and the buffered
\* events stay as they are, otherwise it is appended, and the forwarder goes
\* on forwarding; with capacity 0 the event taken is held until the consumer
\* has received it.
C11_BufferedDropsNewestUnbufferedNeverDrops ==
    /\ [](\A u \in Users : fwd[u].cap > 0 => fwd[u].pc # "sending")
    /\ [][\A u \in Users :
            /\ TakesEvent(u) /\ fwd[u].cap > 0 =>
                  /\ fwd'[u].pc = "forwarding"
                  /\ fwd'[u].outc = IF Len(fwd[u].outc) >= fwd[u].cap
                                    THEN fwd[u].outc
                                    ELSE Append(fwd[u].outc, Head(sub[UserSub(u)].out))
            /\ TakesEvent(u) /\ fwd[u].cap = 0 =>
                  /\ fwd'[u].pc = "sending"
                  /\ fwd'[u].held = Head(sub[UserSub(u)].out)
            /\ fwd[u].pc = "sending" /\ fwd'[u].pc # "sending" =>
                  fwd'[u].received = Append(fwd[u].received, fwd[u].held)]_vars

\* A buffered session whose delivery channel is full and one of whose
\* emitted events is nowhere any more: it was dropped.
C11_Witness ==
    \E u \in Users :
        /\ fwd[u].pc = "forwarding" /\ fwd[u].cap > 0
        /\ Len(fwd[u].outc) = fwd[u].cap
        /\ \E e \in Range(sub[UserSub(u)].emitted) :
              e \notin Range(sub[UserSub(u)].out) \cup Range(fwd[u].outc)
                        \cup Range(fwd[u].received)

\* ------------------------------------------------------------------ C12
Resubscribing(u) == fwd[u].pc \in {"resubscribe", "sleep"}

\* C12: a forwarder that observes its subscription cancelled by an explicit
\* unsubscribe exits and touches the bus no more; it starts resubscribing
\* only on another cause, and once resubscribing it only retries, resumes
\* forwarding on a registered subscription, or exits when the client is no
\* longer running.
C12_UnsubscribeTerminalOtherCausesRetried ==
    [][\A u \in Users :
        LET s == sub[UserSub(u)]
            key == <<fwd[u].subscriber, fwd[u].query>> IN
        /\ fwd[u].pc = "forwarding" /\ fwd'[u].pc = "resubscribe" =>
              s.cancelled /\ s.err # ErrUnsubscribed
        /\ (/\ fwd[u].pc = "forwarding"
            /\ s.cancelled /\ s.err = ErrUnsubscribed
            /\ fwd'[u].pc \notin {"forwarding", "sending"}) =>
              fwd'[u].pc = "exited" /\ bus' = bus /\ sub' = sub
        /\ fwd[u].pc = "exited" => fwd'[u].pc = "exited" /\ sub'[UserSub(u)] = s
        /\ Resubscribing(u) =>
              fwd'[u].pc \in {"resubscribe", "sleep", "forwarding", "exited"}
        /\ Resubscribing(u) /\ fwd'[u].pc = "exited" => ~running
        /\ Resubscribing(u) /\ fwd'[u].pc = "forwarding" =>
              /\ running
              /\ bus'[key] = UserSub(u)
              /\ ~sub'[UserSub(u)].cancelled]_vars

\* A forwarder that resumed forwarding after at least one failed attempt.
C12_Witness ==
    \E u \in Users :
        /\ fwd[u].pc = "forwarding"
        /\ fwd[u].resubscribed
        /\ fwd[u].attempts >= 1
        /\ running

\* ------------------------------------------------------------------ C13
\* C13: the delay slept after the n-th consecutive failed resubscription
\* attempt is 10 * 2^(n-1) ms (10, 20, 40, ...).
C13_DelayStartsAtTenAndDoubles ==
    \A u \in Users :
        fwd[u].pc = "sleep" => fwd[u].delay = 10 * (2 ^ (fwd[u].attempts - 1))

\* ------------------------------------------------------------------ C14
RECURSIVE IsSubsequence(_, _)
IsSubsequence(a, b) ==
    IF a = <<>> THEN TRUE
    ELSE IF b = <<>> THEN FALSE
    ELSE IF Head(a) = Head(b) THEN IsSubsequence(Tail(a), Tail(b))
    ELSE IsSubsequence(a, Tail(b))

\* C14: what the caller has received from the delivery channel, followed by
\* what the channel still holds, is a subsequence of what the bus emitted to
\* the session's subscription, in emission order and without repetition.
C14_ReceivedIsSubsequenceOfEmitted ==
    \A u \in Users :
        IsSubsequence(fwd[u].received \o fwd[u].outc, sub[UserSub(u)].emitted)

\* A caller that received two events of a session in which a third one was
\* emitted and lost.
C14_Witness ==
    \E u \in Users :
        /\ Len(fwd[u].received) >= 2
        /\ fwd[u].outc = <<>>
        /\ sub[UserSub(u)].out = <<>>
        /\ Len(sub[UserSub(u)].emitted) > Len(fwd[u].received)

\* ------------------------------------------------------------------ C20
\* C20: the subscription a forwarder holds after a resubscription is
\* registered under the session's subscriber and query and has the delivery
\* mode the session was created with (unbuffered for capacity 0, else
\* buffered with that capacity).
C20_ResubscriptionKeepsIdentityQueryAndMode ==
    \A u \in Users :
        (/\ fwd[u].pc = "forwarding"
         /\ fwd[u].resubscribed
         /\ ~sub[UserSub(u)].cancelled) =>
            /\ bus[<<fwd[u].subscriber, fwd[u].query>>] = UserSub(u)
            /\ sub[UserSub(u)].cap = fwd[u].cap

\* ------------------------------------------------------------------ C15
\* A TxSearch call that got past the query parser and the indexer.
Searched(c) ==
    /\ call[c].kind = "search"
    /\ call[c].query # <<BadQuery>>
    /\ ~call[c].found.err

\* seq is in the order the token asks for: by height, ties by index, both
\* ascending for "" and "asc", both descending for "desc".
InOrder(seq, orderBy) ==
    \A i, j \in 1..Len(seq) :
        i < j =>
            IF orderBy = "desc"
            THEN \/ seq[i].height > seq[j].height
                 \/ seq[i].height = seq[j].height /\ seq[i].index > seq[j].index
            ELSE \/ seq[i].height < seq[j].height
                 \/ seq[i].height = seq[j].height /\ seq[i].index < seq[j].index

\* C15: TxSearch rejects an order token other than "", "asc", "desc" with
\* an error and no hits; otherwise it sorts all the hits in the order asked
\* for and returns the slice [skip, skip + length) of the sorted hits.
C15_SortedThenPaginated ==
    \A c \in Callers :
        Searched(c) =>
            LET r == call[c]
                o == r.out
                pg == o.pagination IN
            IF r.orderBy \notin {"", "asc", "desc"}
            THEN o.err = "orderBy" /\ o.nil /\ o.txs = <<>>
            ELSE /\ Len(o.sorted) = Len(r.found.results)
                 /\ Range(o.sorted) = Range(r.found.results)
                 /\ InOrder(o.sorted, r.orderBy)
                 /\ o.err = "nil" =>
                       /\ ~o.nil
                       /\ Len(o.txs) = pg.pageSize
                       /\ pg.skipCount + Len(o.txs) <= Len(o.sorted)
                       /\ \A i \in 1..Len(o.txs) :
                             o.txs[i] = ResultTx(o.sorted[pg.skipCount + i])

\* Hits (5,2), (5,1), (7,0) searched in descending order, two per page:
\* page 2 holds (5,1) alone.
C15_Witness ==
    \E c \in Callers :
        /\ Searched(c)
        /\ call[c].found.results = <<Hit(5, 2), Hit(5, 1), Hit(7, 0)>>
        /\ call[c].orderBy = "desc"
        /\ call[c].perPagePtr = <<2>> /\ call[c].pagePtr = <<2>>
        /\ call[c].out.sorted = <<Hit(7, 0), Hit(5, 2), Hit(5, 1)>>
        /\ call[c].out.txs = <<ResultTx(Hit(5, 1))>>

\* ------------------------------------------------------------------ C16
\* A call that reached the pagination of a result set.
Paginated(c) ==
    \/ call[c].kind = "paginate"
    \/ Searched(c) /\ call[c].orderBy \in {"", "asc", "desc"}

PaginationOf(c) ==
    IF call[c].kind = "search" THEN call[c].out.pagination ELSE call[c].pagination

\* C16, as claimed: an empty result set is paginated as page 1, skip count
\* 0 and length 0 whatever page and per-page value are requested.
C16_EmptyTotalAlwaysPageOne ==
    \A c \in Callers :
        Paginated(c) /\ PaginationOf(c).totalCount = 0 =>
            /\ PaginationOf(c).err = "nil"
            /\ PaginationOf(c).page = 1
            /\ PaginationOf(c).skipCount = 0
            /\ PaginationOf(c).pageSize = 0

\* C16, amended: an empty result set has one page for every per-page value;
\* with no page argument or page 1 it is paginated as page 1, skip count 0,
\* length 0, and any other explicit page is rejected with the range [1, 1].
C16_EmptyTotalPageOneOrRangeError ==
    \A c \in Callers :
        Paginated(c) /\ PaginationOf(c).totalCount = 0 =>
            LET pg == PaginationOf(c) IN
            /\ Pages(pg.perPage, 0) = 1
            /\ IF call[c].pagePtr \in {<<>>, <<1>>}
               THEN /\ pg.err = "nil" /\ pg.page = 1
                    /\ pg.skipCount = 0 /\ pg.pageSize = 0
                    /\ call[c].kind = "search" =>
                          call[c].out.txs = <<>> /\ call[c].out.err = "nil"
               ELSE /\ pg.err = "pageRange" /\ pg.pages = 1
                    /\ call[c].kind = "search" =>
                          call[c].out.nil /\ call[c].out.err = "pageRange"

\* A search without hits for page 1 with one hit per page.
C16_Witness ==
    \E c \in Callers :
        /\ Searched(c) /\ Paginated(c)
        /\ call[c].found.results = <<>>
        /\ call[c].pagePtr = <<1>> /\ call[c].perPagePtr = <<1>>
        /\ call[c].out.err = "nil" /\ call[c].out.txs = <<>>

\* ------------------------------------------------------------------ C17
\* C17: the effective per-page value is in [1, 100]; the page count is
\* max(1, ceil(total / per-page)); an explicit page outside [1, pages] is
\* rejected and never clamped; an accepted page has skip count
\* (page - 1) * per-page and length min(per-page, total - skip), which is not
\* negative and stays inside the results, so TxSearch reads no index
\* outside [0, total).
C17_PageRangeSkipAndLength ==
    \A c \in Callers :
        Paginated(c) =>
            LET pg == PaginationOf(c)
                total == pg.totalCount
                P == Pages(pg.perPage, total)
                ptr == call[c].pagePtr IN
            /\ pg.perPage \in 1..maxPerPage
            /\ total = 0 => P = 1
            /\ total > 0 => (P - 1) * pg.perPage < total /\ total <= P * pg.perPage
            /\ ptr = <<>> => pg.err = "nil" /\ pg.page = 1
            /\ ptr # <<>> =>
                  IF ptr[1] \in 1..P
                  THEN pg.err = "nil" /\ pg.page = ptr[1]
                  ELSE pg.err = "pageRange" /\ pg.pages = P
            /\ pg.err = "nil" =>
                  /\ pg.skipCount = (pg.page - 1) * pg.perPage
                  /\ pg.pageSize = MinInt(pg.perPage, total - pg.skipCount)
                  /\ pg.pageSize >= 0
                  /\ pg.skipCount + pg.pageSize <= total
            /\ call[c].kind = "search" =>
                  /\ call[c].out.err \in {"nil", "pageRange"}
                  /\ call[c].out.err = "pageRange" => call[c].out.nil

\* 45 hits, 30 per page, page 2: skip 30, length 15, two pages.
C17_Witness ==
    \E c \in Callers :
        /\ call[c].kind = "paginate"
        /\ call[c].pagination.totalCount = 45
        /\ call[c].perPagePtr = <<30>> /\ call[c].pagePtr = <<2>>
        /\ call[c].pagination.pages = 2
        /\ call[c].pagination.skipCount = 30
        /\ call[c].pagination.pageSize = 15

\* ------------------------------------------------------------------ C18
\* The per-page value a call works with.
EffectivePerPage(c) ==
    IF call[c].kind = "unconfirmed" THEN call[c].limit ELSE PaginationOf(c).perPage

PerPagePtrOf(c) ==
    IF call[c].kind = "unconfirmed" THEN call[c].limitPtr ELSE call[c].perPagePtr

\* C18: the effective per-page value is within [1, 100]: 30 for an absent
\* value and for a value below 1, 100 for a value above 100, the value
\* itself otherwise.
C18_EffectivePerPage ==
    \A c \in Callers :
        Paginated(c) \/ call[c].kind = "unconfirmed" =>
            LET ptr == PerPagePtrOf(c) IN
            /\ EffectivePerPage(c) \in 1..100
            /\ EffectivePerPage(c) =
                  IF ptr = <<>> THEN 30
                  ELSE IF ptr[1] < 1 THEN 30
                  ELSE IF ptr[1] > 100 THEN 100
                  ELSE ptr[1]

\* UnconfirmedTxs called with limit 0 works with limit 30.
C18_Witness ==
    \E c \in Callers :
        /\ call[c].kind = "unconfirmed"
        /\ call[c].limitPtr = <<0>>
        /\ call[c].limit = 30

\* ------------------------------------------------------------------ C19
\* C19: resolving a registered name returns an instance of that backend;
\* resolving any other name returns an explicit not-found outcome: it does
\* not crash and returns no instance.
C19_UnregisteredNameIsExplicitNotFound ==
    \A c \in Callers :
        call[c].kind = "getClient" =>
            /\ ~call[c].panic
            /\ IF call[c].name \in {"mock", "grpc"}
               THEN call[c].client.type # "none" /\ call[c].err = "nil"
               ELSE call[c].client.type = "none" /\ call[c].err = "notFound"

\* ------------------------------------------------------------------ C21
\* The forwarding task of u is alive.
Forwarder(u) == fwd[u].pc \in {"forwarding", "sending", "resubscribe", "sleep"}

\* C21: once the node has stopped, every forwarding task eventually
\* terminates, whether it waits for a bus event, sleeps between two
\* resubscription attempts or waits to deliver on an unbuffered channel.
C21_ForwardersTerminateAfterShutdown ==
    \A u \in Users : (~running /\ Forwarder(u)) ~> (fwd[u].pc = "exited")

====
